---- MODULE Spec2Model ----
(***************************************************************************)
(* Model of the named-semaphore wrapper of src/src/lib.rs: Semaphore (a    *)
(* name and a sem_t pointer), SemaphoreGuard (a borrow of a Semaphore that *)
(* releases on drop), and the POSIX calls they issue (sem_open, sem_close, *)
(* sem_unlink, sem_wait, sem_trywait, sem_post, sem_getvalue) against one  *)
(* process's view of the OS: a namespace of named objects, each with a     *)
(* count, and the process's table of mapped sem_t addresses.               *)
(***************************************************************************)
EXTENDS Integers, Sequences, FiniteSets, TLC

(* ------------------------------ bounds --------------------------------- *)
(* Semaphore values built, OS objects created, sem_t addresses, guards     *)
(* built and direct acquire/try_acquire/release calls made in one run of   *)
(* Spec; threads; SEM_VALUE_MAX; guards built and direct calls made in one *)
(* run of SpecWake and SpecFair.                                           *)
MaxHandles == 3
MaxObjs == 2
MaxAddrs == 2
MaxGuards == 1
MaxDirect == 1
MaxThreads == 3
SemValueMax == 2
WakeGuards == 2
WakeDirect == 3

(* Width of the C unsigned int that sem_open reads its value argument as,  *)
(* scaled down: the usize capacity is passed through a variadic call.      *)
UIntMod == 4

Handles == 1..MaxHandles
Objs == 1..MaxObjs
Addrs == 1..MaxAddrs
Guards == 1..(IF WakeGuards > MaxGuards THEN WakeGuards ELSE MaxGuards)
Threads == 1..MaxThreads

(* Names are byte strings: "/a" and "\0i" (an embedded NUL).               *)
Names == {<<47, 97>>, <<0, 105>>}
Capacities == {0, 1, SemValueMax + 1, UIntMod + 1}

O_CREAT == "O_CREAT"
O_EXCL == "O_EXCL"

(* --------------------------- pure helpers ------------------------------ *)
(* CString::new: Err (InvalidInput, no OS code) when a byte is 0,          *)
(* otherwise the bytes followed by the terminating NUL.                    *)
HasNul(name) == \E i \in 1..Len(name) : name[i] = 0

CStringNewUnchecked(name) == [ok |-> TRUE, c |-> Append(name, 0)]

CStringNew(name) ==
    IF HasNul(name) THEN [ok |-> FALSE, c |-> <<>>]
    ELSE [ok |-> TRUE, c |-> Append(name, 0)]

(* What the C side reads through name.as_ptr(): the bytes before the first *)
(* NUL.                                                                    *)
RECURSIVE StrOf(_)
StrOf(c) ==
    IF c = <<>> \/ Head(c) = 0 THEN <<>> ELSE <<Head(c)>> \o StrOf(Tail(c))

OsNames == {StrOf(Append(n, 0)) : n \in Names}

(* std::io::Error::last_os_error().kind() for the errno values in play.    *)
ErrKind(errno) ==
    CASE errno = "EAGAIN" -> "WouldBlock"
      [] errno = "EEXIST" -> "AlreadyExists"
      [] errno = "ENOENT" -> "NotFound"
      [] errno = "EINTR" -> "Interrupted"
      [] errno = "EINVAL" -> "InvalidInput"
      [] OTHER -> "Other"

(* A capture_io_error that takes every return for success.                 *)
CaptureIoErrorIgnores(r) == [kind |-> "Ok", errno |-> "none"]

(* capture_io_error: a non-zero return becomes Err(last_os_error()).       *)
CaptureIoError(r) ==
    IF r.rc # 0 THEN [kind |-> ErrKind(r.errno), errno |-> r.errno]
    ELSE [kind |-> "Ok", errno |-> "none"]

(* A value() that returns what sem_getvalue stored, sign included.         *)
NormalizeValueRaw(sval) == sval

(* value(): a negative sval is replaced by 0 before the cast to usize.     *)
NormalizeValue(sval) == IF sval < 0 THEN 0 ELSE sval

VARIABLES
    ns,        \* OS namespace: OsNames -> object id, 0 when the name is absent
    count,     \* count of each OS object
    map,       \* the process's sem_t addresses: [obj, ref], obj = 0 unmapped
    hnd,       \* Semaphore values: [st, name, sem, owner, obj, closes]
    grd,       \* SemaphoreGuard values: [st, sem, rel]
    pc,        \* per thread: "run", or "wait" inside sem_wait
    waitOn,    \* per waiting thread: [h, op]
    ret,       \* what the last operation returned
    crashed,   \* the process took a fault on an unmapped sem_t
    acct,      \* history: initial counts and net completed acquire/release
    used       \* how many handles, objects, guards, direct calls so far

vars == <<ns, count, map, hnd, grd, pc, waitOn, ret, crashed, acct, used>>

NoHandle == [st |-> "none", name |-> <<>>, sem |-> 0, owner |-> 0, obj |-> 0,
             closes |-> 0]
NoGuard == [st |-> "none", sem |-> 0, rel |-> 0]
NoWait == [h |-> 0, op |-> "none"]
NoRet == [op |-> "none", h |-> 0, kind |-> "Ok", errno |-> "none", val |-> 0,
          sys |-> 0]

(* What an operation returned: the method, the Semaphore, the ErrorKind    *)
(* and OS code, the value read, and how many libc calls it made.           *)
Ret(op, h, e, val, sys) ==
    [op |-> op, h |-> h, kind |-> e.kind, errno |-> e.errno, val |-> val,
     sys |-> sys]

Ok == [kind |-> "Ok", errno |-> "none"]
Fault == [kind |-> "Fault", errno |-> "SIGSEGV"]

Init ==
    /\ ns = [n \in OsNames |-> 0]
    /\ count = [o \in Objs |-> 0]
    /\ map = [a \in Addrs |-> [obj |-> 0, ref |-> 0]]
    /\ hnd = [h \in Handles |-> NoHandle]
    /\ grd = [g \in Guards |-> NoGuard]
    /\ pc = [t \in Threads |-> "run"]
    /\ waitOn = [t \in Threads |-> NoWait]
    /\ ret = NoRet
    /\ crashed = FALSE
    /\ acct = [init |-> [o \in Objs |-> 0],
               net |-> [o \in Objs |-> 0],
               hNet |-> [h \in Handles |-> 0],
               dNet |-> [h \in Handles |-> 0]]
    /\ used = [handles |-> 0, objs |-> 0, guards |-> 0, direct |-> 0,
               maxGuards |-> MaxGuards, maxDirect |-> MaxDirect]

(* ------------------------- the C library side -------------------------- *)
Unmapped == [obj |-> 0, ref |-> 0]

(* The object a sem_t address refers to right now, 0 when nothing is       *)
(* mapped there.                                                           *)
ObjAt(a) == IF a \in Addrs THEN map[a].obj ELSE 0

(* The object the pointer held by Semaphore h refers to right now.         *)
Resolve(h) == ObjAt(hnd[h].sem)

(* sem_open returns the address the object is already mapped at in this    *)
(* process (one more reference), or maps it at any free address.           *)
AddrsFor(o) ==
    IF \E a \in Addrs : map[a].obj = o
    THEN {a \in Addrs : map[a].obj = o}
    ELSE {a \in Addrs : map[a].obj = 0}

MapAdd(a, o) == [map EXCEPT ![a] = [obj |-> o, ref |-> map[a].ref + 1]]

(* sem_close(a): drops one reference of whatever is mapped at a, unmapping *)
(* it with the last one; EINVAL when nothing is mapped at a. Applied to a  *)
(* table m so that two calls in a row can be composed.                     *)
SemClose(m, a) ==
    IF a \in Addrs /\ m[a].obj # 0
    THEN [map |-> IF m[a].ref = 1 THEN [m EXCEPT ![a] = Unmapped]
                  ELSE [m EXCEPT ![a].ref = m[a].ref - 1],
          r |-> [rc |-> 0, errno |-> "none"]]
    ELSE [map |-> m, r |-> [rc |-> -1, errno |-> "EINVAL"]]

(* sem_trywait on object o: decrement when positive, else EAGAIN.          *)
SemTryWait(o) ==
    IF count[o] > 0
    THEN [count |-> [count EXCEPT ![o] = count[o] - 1],
          r |-> [rc |-> 0, errno |-> "none"]]
    ELSE [count |-> count, r |-> [rc |-> -1, errno |-> "EAGAIN"]]

(* A sem_wait that is never woken.                                         *)
SemWaitNeverReady(o) == FALSE

(* A sem_wait that returns whatever the count is.                          *)
SemWaitAlwaysReady(o) == TRUE

(* sem_wait on object o returns 0 only by taking one unit of a positive    *)
(* count.                                                                  *)
SemWaitReady(o) == count[o] > 0

(* sem_post on object o: increment, EOVERFLOW at SEM_VALUE_MAX.            *)
SemPost(o) ==
    IF count[o] < SemValueMax
    THEN [count |-> [count EXCEPT ![o] = count[o] + 1],
          r |-> [rc |-> 0, errno |-> "none"]]
    ELSE [count |-> count, r |-> [rc |-> -1, errno |-> "EOVERFLOW"]]

(* Threads inside sem_wait on object o.                                    *)
Waiters(o) ==
    Cardinality({t \in Threads : pc[t] = "wait" /\ Resolve(waitOn[t].h) = o})

(* sem_getvalue: the count; with the count at 0 and threads blocked, POSIX *)
(* also allows the negated number of waiters.                              *)
SemGetValue(o) ==
    {count[o]} \cup
    (IF count[o] = 0 /\ Waiters(o) > 0 THEN {0 - Waiters(o)} ELSE {})

(* The name sem_open accepts: non-empty.                                   *)
OsNameOk(s) == Len(s) > 0

(* An object lives while it has a name or is mapped; the OS destroys it    *)
(* with its last reference.                                                *)
Live(o, nsN, mapN) ==
    \/ \E n \in OsNames : nsN[n] = o
    \/ \E a \in Addrs : mapN[a].obj = o

Reap(f, nsN, mapN) == [o \in Objs |-> IF Live(o, nsN, mapN) THEN f[o] ELSE 0]

Reaped(a, nsN, mapN) ==
    [a EXCEPT !.init = Reap(a.init, nsN, mapN), !.net = Reap(a.net, nsN, mapN)]

(* The id a newly created object gets.                                     *)
FreshObj == used.objs + 1

(* ----------------------------- bookkeeping ----------------------------- *)
LiveGuards(h) == {g \in Guards : grd[g].st = "live" /\ grd[g].sem = h}

(* The slot a new Semaphore or SemaphoreGuard value takes.                 *)
FreshHandle == used.handles + 1
FreshGuard == used.guards + 1

(* The owner of Semaphore h may call a method on it.                       *)
CanUse(h) ==
    /\ ~crashed
    /\ hnd[h].st = "open"
    /\ pc[hnd[h].owner] = "run"

Crash(op, h) ==
    /\ crashed' = TRUE
    /\ ret' = Ret(op, h, Fault, 0, 1)

(* Threads inside sem_wait on behalf of op ("acquire" or "access").        *)
Pending(op) ==
    Cardinality({t \in Threads : pc[t] = "wait" /\ waitOn[t].op = op})

(* A Semaphore value that is gone keeps only how it went.                  *)
Gone(how, n) == [NoHandle EXCEPT !.st = how, !.closes = n]

Forget(h, a) == [a EXCEPT !.hNet[h] = 0, !.dNet[h] = 0]

(* ------------------------------ actions -------------------------------- *)
(* open_with_oflag, lines 29-39. A name with an embedded NUL is rejected   *)
(* by CString::new before sem_open is called; otherwise sem_open(name,     *)
(* oflag, 0o644, capacity) decides, reading capacity as an unsigned int.   *)
OpenFails(op, e, sys) ==
    /\ ret' = Ret(op, 0, e, 0, sys)
    /\ UNCHANGED <<ns, count, map, hnd, acct, used>>

(* Ok(Semaphore { name, sem }). A Semaphore is neither Send nor Sync (it   *)
(* holds a raw pointer): the thread that builds it is the only one to use  *)
(* it.                                                                     *)
OpenYields(op, t, cname, o, a) ==
    /\ used.handles < MaxHandles
    /\ hnd' = [hnd EXCEPT ![FreshHandle] =
                 [st |-> "open", name |-> cname, sem |-> a, owner |-> t,
                  obj |-> o, closes |-> 0]]
    /\ map' = MapAdd(a, o)
    /\ ret' = Ret(op, FreshHandle, Ok, 0, 1)

(* Threads take turns calling open/create.                                 *)
Opener == (used.handles % MaxThreads) + 1

OpenWithOflag(t, name, capacity, oflag, op) ==
    /\ ~crashed
    /\ t = Opener
    /\ pc[t] = "run"
    /\ LET cs == CStringNew(name)
           s == StrOf(cs.c)
           value == capacity % UIntMod
       IN  IF ~cs.ok
           THEN OpenFails(op, [kind |-> "InvalidInput", errno |-> "none"], 0)
           ELSE IF ~OsNameOk(s)
           THEN OpenFails(op, CaptureIoError([rc |-> -1, errno |-> "EINVAL"]), 1)
           ELSE IF O_EXCL \in oflag /\ value > SemValueMax
           THEN OpenFails(op, CaptureIoError([rc |-> -1, errno |-> "EINVAL"]), 1)
           ELSE IF ns[s] # 0 /\ O_EXCL \in oflag
           THEN OpenFails(op, CaptureIoError([rc |-> -1, errno |-> "EEXIST"]), 1)
           ELSE IF ns[s] # 0
           THEN /\ \E a \in AddrsFor(ns[s]) : OpenYields(op, t, cs.c, ns[s], a)
                /\ used' = [used EXCEPT !.handles = @ + 1]
                /\ UNCHANGED <<ns, count, acct>>
           ELSE IF value > SemValueMax
           THEN OpenFails(op, CaptureIoError([rc |-> -1, errno |-> "EINVAL"]), 1)
           ELSE /\ used.objs < MaxObjs
                /\ used' = [used EXCEPT !.handles = @ + 1, !.objs = @ + 1]
                /\ ns' = [ns EXCEPT ![s] = FreshObj]
                /\ count' = [count EXCEPT ![FreshObj] = value]
                /\ acct' = [acct EXCEPT !.init[FreshObj] = value]
                /\ \E a \in AddrsFor(FreshObj) :
                       OpenYields(op, t, cs.c, FreshObj, a)
    /\ UNCHANGED <<grd, pc, waitOn, crashed>>

(* open, lines 19-22 *)
Open(t, name, capacity) == OpenWithOflag(t, name, capacity, {O_CREAT}, "open")

(* A create that leaves O_EXCL out.                                        *)
CreateNoExcl(t, name, capacity) ==
    OpenWithOflag(t, name, capacity, {O_CREAT}, "create")

(* create, lines 24-27 *)
Create(t, name, capacity) ==
    OpenWithOflag(t, name, capacity, {O_CREAT, O_EXCL}, "create")

(* What value() can return through Semaphore h in this state; nothing     *)
(* when its pointer refers to no mapped semaphore.                         *)
ValueReads(h) ==
    IF Resolve(h) = 0 THEN {}
    ELSE {NormalizeValue(sval) : sval \in SemGetValue(Resolve(h))}

(* value, lines 41-49 *)
Value(h) ==
    /\ CanUse(h)
    /\ IF Resolve(h) = 0
       THEN Crash("value", h)
       ELSE /\ \E sval \in SemGetValue(Resolve(h)) :
                  ret' = Ret("value", h, Ok, NormalizeValue(sval), 1)
            /\ UNCHANGED crashed
    /\ UNCHANGED <<ns, count, map, hnd, grd, pc, waitOn, acct, used>>

(* Room left, within the bounds, for one more guard or one more direct     *)
(* acquire/try_acquire/release call.                                       *)
Budget(guarded) ==
    IF guarded THEN used.guards + Pending("access") < used.maxGuards
    ELSE used.direct + Pending("acquire") < used.maxDirect

(* A guard built whatever sem_wait/sem_trywait returned.                   *)
NewGuardAlways(h, e, guarded) ==
    IF guarded
    THEN grd' = [grd EXCEPT ![FreshGuard] = [st |-> "live", sem |-> h, rel |-> 0]]
    ELSE UNCHANGED grd

(* SemaphoreGuard::new, lines 117-121: built only on the Ok path of        *)
(* access/try_access (the ? operator returns early on Err).                *)
NewGuard(h, e, guarded) ==
    IF guarded /\ e.kind = "Ok"
    THEN grd' = [grd EXCEPT ![FreshGuard] = [st |-> "live", sem |-> h, rel |-> 0]]
    ELSE UNCHANGED grd

(* One more guard (when the call built one) or direct call within the      *)
(* bounds.                                                                 *)
Spent(e, guarded) ==
    used' = IF ~guarded THEN [used EXCEPT !.direct = @ + 1]
            ELSE IF e.kind = "Ok" THEN [used EXCEPT !.guards = @ + 1]
            ELSE used

(* History of a call that returned e after sem_wait/sem_trywait on object  *)
(* o through Semaphore h.                                                  *)
Acquired(h, o, e, guarded) ==
    acct' = IF e.kind = "Ok"
            THEN [acct EXCEPT !.net[o] = @ - 1, !.hNet[h] = @ + 1,
                              !.dNet[h] = IF guarded THEN @ ELSE @ + 1]
            ELSE acct

(* try_acquire (lines 57-61) and try_access (lines 74-78): sem_trywait,    *)
(* then the guard on success.                                              *)
TryWait(h, op, guarded) ==
    /\ CanUse(h)
    /\ Budget(guarded)
    /\ IF Resolve(h) = 0
       THEN /\ Crash(op, h)
            /\ UNCHANGED <<count, grd, acct, used>>
       ELSE LET o == Resolve(h)
                w == SemTryWait(o)
                e == CaptureIoError(w.r)
            IN  /\ count' = w.count
                /\ ret' = Ret(op, h, e, 0, 1)
                /\ NewGuard(h, e, guarded)
                /\ Acquired(h, o, e, guarded)
                /\ Spent(e, guarded)
                /\ UNCHANGED crashed
    /\ UNCHANGED <<ns, map, hnd, pc, waitOn>>

TryAcquire(h) == TryWait(h, "try_acquire", FALSE)

(* A try_access that acquires and returns Ok without building a guard.     *)
TryAccessNoGuard(h) == TryWait(h, "try_access", FALSE)

TryAccess(h) == TryWait(h, "try_access", TRUE)

(* acquire (lines 51-55) and access (lines 68-72) enter sem_wait ...       *)
WaitCall(h, op, guarded) ==
    /\ CanUse(h)
    /\ Budget(guarded)
    /\ pc' = [pc EXCEPT ![hnd[h].owner] = "wait"]
    /\ waitOn' = [waitOn EXCEPT ![hnd[h].owner] = [h |-> h, op |-> op]]
    /\ UNCHANGED <<ns, count, map, hnd, grd, ret, crashed, acct, used>>

Acquire(h) == WaitCall(h, "acquire", FALSE)

Access(h) == WaitCall(h, "access", TRUE)

(* ... and leave it with 0 once sem_wait has taken a unit of the count.    *)
WaitReturns(t) ==
    /\ ~crashed
    /\ pc[t] = "wait"
    /\ LET h == waitOn[t].h
           op == waitOn[t].op
       IN  IF Resolve(h) = 0
           THEN /\ Crash(op, h)
                /\ UNCHANGED <<count, grd, acct, used, pc, waitOn>>
           ELSE LET o == Resolve(h)
                    e == CaptureIoError([rc |-> 0, errno |-> "none"])
                IN  /\ SemWaitReady(o)
                    /\ count' = [count EXCEPT ![o] = count[o] - 1]
                    /\ ret' = Ret(op, h, e, 0, 1)
                    /\ NewGuard(h, e, op = "access")
                    /\ Acquired(h, o, e, op = "access")
                    /\ Spent(e, op = "access")
                    /\ pc' = [pc EXCEPT ![t] = "run"]
                    /\ waitOn' = [waitOn EXCEPT ![t] = NoWait]
                    /\ UNCHANGED crashed
    /\ UNCHANGED <<ns, map, hnd>>

(* An access that wraps the Semaphore in a guard although sem_wait was     *)
(* interrupted.                                                            *)
WaitInterruptedWithGuard(t) ==
    /\ ~crashed
    /\ pc[t] = "wait"
    /\ Resolve(waitOn[t].h) # 0
    /\ count[Resolve(waitOn[t].h)] = 0
    /\ LET h == waitOn[t].h
           op == waitOn[t].op
           e == CaptureIoError([rc |-> -1, errno |-> "EINTR"])
       IN  /\ ret' = Ret(op, h, e, 0, 1)
           /\ NewGuard(h, Ok, op = "access")
           /\ Acquired(h, Resolve(h), e, op = "access")
           /\ Spent(e, op = "access")
    /\ pc' = [pc EXCEPT ![t] = "run"]
    /\ waitOn' = [waitOn EXCEPT ![t] = NoWait]
    /\ UNCHANGED <<ns, count, map, hnd, crashed>>

(* sem_wait interrupted by a signal while blocked: -1 with EINTR, which    *)
(* acquire returns as Err; access returns it without building a guard.     *)
WaitInterrupted(t) ==
    /\ ~crashed
    /\ pc[t] = "wait"
    /\ Resolve(waitOn[t].h) # 0
    /\ count[Resolve(waitOn[t].h)] = 0
    /\ LET h == waitOn[t].h
           op == waitOn[t].op
           e == CaptureIoError([rc |-> -1, errno |-> "EINTR"])
       IN  /\ ret' = Ret(op, h, e, 0, 1)
           /\ NewGuard(h, e, op = "access")
           /\ Acquired(h, Resolve(h), e, op = "access")
           /\ Spent(e, op = "access")
    /\ pc' = [pc EXCEPT ![t] = "run"]
    /\ waitOn' = [waitOn EXCEPT ![t] = NoWait]
    /\ UNCHANGED <<ns, count, map, hnd, crashed>>

(* History of a sem_post on object o through Semaphore h that returned e.  *)
Released(h, o, e, direct) ==
    acct' = IF e.kind = "Ok"
            THEN [acct EXCEPT !.net[o] = @ + 1, !.hNet[h] = @ - 1,
                              !.dNet[h] = IF direct THEN @ - 1 ELSE @]
            ELSE acct

(* A release that refuses to post unless an acquisition made through the   *)
(* Semaphore is outstanding and not held by a live guard.                  *)
ReleaseChecked(h) ==
    /\ CanUse(h)
    /\ Budget(FALSE)
    /\ Resolve(h) # 0
    /\ LET o == Resolve(h)
           p == IF acct.hNet[h] > Cardinality(LiveGuards(h)) THEN SemPost(o)
                ELSE [count |-> count, r |-> [rc |-> -1, errno |-> "EINVAL"]]
           e == CaptureIoError(p.r)
       IN  /\ count' = p.count
           /\ ret' = Ret("release", h, e, 0, 1)
           /\ Released(h, o, e, TRUE)
           /\ used' = [used EXCEPT !.direct = @ + 1]
    /\ UNCHANGED <<ns, map, hnd, grd, pc, waitOn, crashed>>

(* A release that calls sem_post twice.                                    *)
ReleaseTwice(h) ==
    /\ CanUse(h)
    /\ Budget(FALSE)
    /\ Resolve(h) # 0
    /\ LET o == Resolve(h)
           p == SemPost(o)
           e == CaptureIoError(p.r)
       IN  /\ count' = IF count[o] + 1 < SemValueMax
                       THEN [count EXCEPT ![o] = count[o] + 2]
                       ELSE p.count
           /\ ret' = Ret("release", h, e, 0, 2)
           /\ Released(h, o, e, TRUE)
           /\ used' = [used EXCEPT !.direct = @ + 1]
    /\ UNCHANGED <<ns, map, hnd, grd, pc, waitOn, crashed>>

(* release, lines 63-66 *)
Release(h) ==
    /\ CanUse(h)
    /\ Budget(FALSE)
    /\ IF Resolve(h) = 0
       THEN /\ Crash("release", h)
            /\ UNCHANGED <<count, acct, used>>
       ELSE LET o == Resolve(h)
                p == SemPost(o)
                e == CaptureIoError(p.r)
            IN  /\ count' = p.count
                /\ ret' = Ret("release", h, e, 0, 1)
                /\ Released(h, o, e, TRUE)
                /\ used' = [used EXCEPT !.direct = @ + 1]
                /\ UNCHANGED crashed
    /\ UNCHANGED <<ns, map, hnd, grd, pc, waitOn>>

(* A guard whose drop releases nothing.                                    *)
GuardDropNoRelease(g) ==
    /\ grd[g].st = "live"
    /\ CanUse(grd[g].sem)
    /\ grd' = [grd EXCEPT ![g] = [st |-> "ended", sem |-> 0, rel |-> @.rel]]
    /\ ret' = Ret("guard_drop", grd[g].sem, Ok, 0, 0)
    /\ UNCHANGED <<ns, count, map, hnd, pc, waitOn, crashed, acct, used>>

(* Drop for SemaphoreGuard, lines 123-127: one release through the         *)
(* borrowed Semaphore, its result discarded.                               *)
GuardDrop(g) ==
    /\ grd[g].st = "live"
    /\ CanUse(grd[g].sem)
    /\ grd' = [grd EXCEPT ![g] = [st |-> "ended", sem |-> 0, rel |-> @.rel + 1]]
    /\ UNCHANGED used
    /\ LET h == grd[g].sem
       IN  IF Resolve(h) = 0
           THEN /\ Crash("guard_drop", h)
                /\ UNCHANGED <<count, acct>>
           ELSE LET o == Resolve(h)
                    p == SemPost(o)
                    e == CaptureIoError(p.r)
                IN  /\ count' = p.count
                    /\ Released(h, o, e, FALSE)
                    /\ ret' = Ret("guard_drop", h, Ok, 0, 1)
                    /\ UNCHANGED crashed
    /\ UNCHANGED <<ns, map, hnd, pc, waitOn>>

(* close, lines 80-83: sem_close, whose result is returned; self is owned  *)
(* by close and goes out of scope at its end, so Drop for Semaphore (lines *)
(* 100-104) runs and calls sem_close on the same pointer again.            *)
Close(h) ==
    /\ CanUse(h)
    /\ LiveGuards(h) = {}
    /\ LET c1 == SemClose(map, hnd[h].sem)
           c2 == SemClose(c1.map, hnd[h].sem)
       IN  /\ map' = c2.map
           /\ ret' = Ret("close", h, CaptureIoError(c1.r), 0, 2)
           /\ count' = Reap(count, ns, c2.map)
           /\ acct' = Forget(h, Reaped(acct, ns, c2.map))
           /\ hnd' = [hnd EXCEPT ![h] = Gone("closed", 2)]
    /\ UNCHANGED <<ns, grd, pc, waitOn, crashed, used>>

(* Drop for Semaphore, lines 100-104, of a value that was never passed to  *)
(* close: one sem_close, its result discarded.                             *)
DropSemaphore(h) ==
    /\ CanUse(h)
    /\ LiveGuards(h) = {}
    /\ LET c == SemClose(map, hnd[h].sem)
       IN  /\ map' = c.map
           /\ count' = Reap(count, ns, c.map)
           /\ acct' = Forget(h, Reaped(acct, ns, c.map))
           /\ hnd' = [hnd EXCEPT ![h] = Gone("dropped", 1)]
    /\ ret' = Ret("drop", h, Ok, 0, 1)
    /\ UNCHANGED <<ns, grd, pc, waitOn, crashed, used>>

(* An unlink that reports success whether or not the name was linked.      *)
UnlinkAlwaysOk(h) ==
    /\ CanUse(h)
    /\ LET nsN == [ns EXCEPT ![StrOf(hnd[h].name)] = 0]
       IN  /\ ns' = nsN
           /\ count' = Reap(count, nsN, map)
           /\ acct' = Reaped(acct, nsN, map)
    /\ ret' = Ret("unlink", h, Ok, 0, 1)
    /\ UNCHANGED <<map, hnd, grd, pc, waitOn, crashed, used>>

(* An unlink that reports success and leaves the name in place.            *)
UnlinkKeepsName(h) ==
    /\ CanUse(h)
    /\ ret' = Ret("unlink", h, Ok, 0, 1)
    /\ UNCHANGED <<ns, count, map, hnd, grd, pc, waitOn, crashed, acct, used>>

(* unlink, lines 85-88: sem_unlink of the stored name.                     *)
Unlink(h) ==
    /\ CanUse(h)
    /\ LET s == StrOf(hnd[h].name)
           nsN == [ns EXCEPT ![s] = 0]
       IN  IF ns[s] # 0
           THEN /\ ns' = nsN
                /\ ret' = Ret("unlink", h, Ok, 0, 1)
                /\ count' = Reap(count, nsN, map)
                /\ acct' = Reaped(acct, nsN, map)
           ELSE /\ ret' = Ret("unlink", h,
                              CaptureIoError([rc |-> -1, errno |-> "ENOENT"]),
                              0, 1)
                /\ UNCHANGED <<ns, count, acct>>
    /\ UNCHANGED <<map, hnd, grd, pc, waitOn, crashed, used>>

Next ==
    \/ \E t \in Threads, name \in Names, capacity \in Capacities :
           Open(t, name, capacity)
    \/ \E t \in Threads, name \in Names, capacity \in Capacities :
           Create(t, name, capacity)
    \/ \E h \in Handles : Value(h)
    \/ \E h \in Handles : Acquire(h)
    \/ \E h \in Handles : TryAcquire(h)
    \/ \E h \in Handles : Release(h)
    \/ \E h \in Handles : Access(h)
    \/ \E h \in Handles : TryAccess(h)
    \/ \E t \in Threads : WaitReturns(t)
    \/ \E t \in Threads : WaitInterrupted(t)
    \/ \E g \in Guards : GuardDrop(g)
    \/ \E h \in Handles : Close(h)
    \/ \E h \in Handles : DropSemaphore(h)
    \/ \E h \in Handles : Unlink(h)

Spec == Init /\ [][Next]_vars

(* ---------------- three threads sharing one semaphore ------------------ *)
(* Each thread has opened "/a", created with count c, as in                *)
(* tests::sems_with_same_name_share_value; the threads then only acquire,  *)
(* release, take guards and read the value.                                *)
SharedName == <<47, 97>>

InitWake ==
    /\ \E c \in 0..1 :
          /\ count = [o \in Objs |-> IF o = 1 THEN c ELSE 0]
          /\ acct = [init |-> [o \in Objs |-> IF o = 1 THEN c ELSE 0],
                     net |-> [o \in Objs |-> 0],
                     hNet |-> [h \in Handles |-> 0],
                     dNet |-> [h \in Handles |-> 0]]
    /\ ns = [n \in OsNames |-> IF n = SharedName THEN 1 ELSE 0]
    /\ map = [a \in Addrs |-> IF a = 1 THEN [obj |-> 1, ref |-> MaxHandles]
                                ELSE Unmapped]
    /\ hnd = [h \in Handles |->
                [st |-> "open", name |-> CStringNew(SharedName).c, sem |-> 1,
                 owner |-> ((h - 1) % MaxThreads) + 1, obj |-> 1, closes |-> 0]]
    /\ grd = [g \in Guards |-> NoGuard]
    /\ pc = [t \in Threads |-> "run"]
    /\ waitOn = [t \in Threads |-> NoWait]
    /\ ret = NoRet
    /\ crashed = FALSE
    /\ used = [handles |-> MaxHandles, objs |-> 1, guards |-> 0, direct |-> 0,
               maxGuards |-> WakeGuards, maxDirect |-> WakeDirect]

NextWake ==
    \/ \E h \in Handles : Value(h)
    \/ \E h \in Handles : Acquire(h)
    \/ \E h \in Handles : TryAcquire(h)
    \/ \E h \in Handles : Release(h)
    \/ \E h \in Handles : Access(h)
    \/ \E h \in Handles : TryAccess(h)
    \/ \E t \in Threads : WaitReturns(t)
    \/ \E t \in Threads : WaitInterrupted(t)
    \/ \E g \in Guards : GuardDrop(g)

SpecWake == InitWake /\ [][NextWake]_vars

(* The same threads when every acquisition is made through a guard. The OS *)
(* returns a thread from sem_wait once the count stays positive, and the   *)
(* scope of a guard ends once its thread can run.                          *)
NextFair ==
    \/ \E h \in Handles : Value(h)
    \/ \E h \in Handles : Access(h)
    \/ \E h \in Handles : TryAccess(h)
    \/ \E t \in Threads : WaitReturns(t)
    \/ \E t \in Threads : WaitInterrupted(t)
    \/ \E g \in Guards : GuardDrop(g)

Fairness ==
    /\ \A t \in Threads : WF_vars(WaitReturns(t))
    /\ \A g \in Guards : WF_vars(GuardDrop(g))

SpecFair == InitWake /\ [][NextFair]_vars /\ Fairness

(* ------------------------------ claims --------------------------------- *)
(* C1: every guard performs exactly one release through the Semaphore it   *)
(* borrows, when its scope ends and not before: a guard that is live has   *)
(* released nothing, a guard whose scope has ended has released exactly    *)
(* once, so the guard-initiated releases number the ended guards.          *)
C1_GuardReleasesOnce ==
    \A g \in Guards :
        /\ grd[g].st = "live" => grd[g].rel = 0
        /\ grd[g].st = "ended" => grd[g].rel = 1
        /\ grd[g].st = "none" => grd[g].rel = 0

C1_Witness == \E g \in Guards : grd[g].st = "ended" /\ grd[g].rel = 1

(* C2: sem_close is issued exactly once per Semaphore over its lifetime,   *)
(* whether it went by close(self) or by the implicit drop.                 *)
C2_ClosedExactlyOnce ==
    \A h \in Handles :
        /\ hnd[h].st = "open" => hnd[h].closes = 0
        /\ hnd[h].st \in {"closed", "dropped"} => hnd[h].closes = 1

(* C3: through a Semaphore whose semaphore has count c >= 1, try_access    *)
(* returns Ok and access returns, the count (and what value() reads) is    *)
(* c - 1 afterwards with a guard live, and the drop of a guard taken at    *)
(* count c brings the count (and what value() reads) back to c.            *)
C3_Acquires(h, o) ==
    /\ ret'.kind = "Ok"
    /\ count'[o] = count[o] - 1
    /\ ValueReads(h)' = {count[o] - 1}
    /\ \E g \in Guards : grd[g].st # "live" /\ grd'[g] = [st |-> "live", sem |-> h, rel |-> 0]

C3_Step ==
    /\ \A h \in Handles :
         /\ ret'.op = "try_access" /\ ret'.h = h
         /\ Resolve(h) # 0 /\ count[Resolve(h)] >= 1
         /\ TryAccess(h)
         => C3_Acquires(h, Resolve(h))
    /\ \A t \in Threads, h \in Handles, o \in Objs :
         /\ pc[t] = "wait" /\ waitOn[t].op = "access" /\ ~crashed
         /\ waitOn[t].h = h /\ Resolve(h) = o /\ count[o] >= 1
         => /\ ENABLED WaitReturns(t)
            /\ WaitReturns(t) => C3_Acquires(h, o)
    /\ \A g \in Guards, h \in Handles, o \in Objs :
         /\ ret'.op = "guard_drop"
         /\ grd[g].sem = h /\ Resolve(h) = o
         /\ count[o] + 1 \in 1..SemValueMax
         /\ GuardDrop(g)
         => /\ count'[o] = count[o] + 1
            /\ ValueReads(h)' = {count[o] + 1}
            /\ grd'[g].st = "ended"

C3_RoundTrip == [][C3_Step]_vars

C3_Witness ==
    /\ ret.op = "guard_drop"
    /\ hnd[ret.h].st = "open"
    /\ Resolve(ret.h) # 0
    /\ count[Resolve(ret.h)] >= 1
    /\ acct.net[Resolve(ret.h)] = 0
    /\ \E g \in Guards : grd[g].st = "ended"

(* C4: try_access and try_acquire through a Semaphore whose semaphore has  *)
(* count 0 return WouldBlock at once, build no guard, and leave the count  *)
(* at 0.                                                                   *)
C4_Step ==
    \A h \in Handles :
        /\ ret'.op \in {"try_access", "try_acquire"} /\ ret'.h = h
        /\ Resolve(h) # 0 /\ count[Resolve(h)] = 0
        /\ TryAccess(h) \/ TryAcquire(h)
        => /\ ret'.kind = "WouldBlock"
             /\ ret'.h = h
             /\ grd' = grd
             /\ count' = count
             /\ pc' = pc

C4_WouldBlock == [][C4_Step]_vars

C4_Witness ==
    /\ ret.op = "try_access"
    /\ ret.kind = "WouldBlock"
    /\ count[Resolve(ret.h)] = 0
    /\ \A g \in Guards : grd[g].st = "none"

(* C5: a blocking acquire (or access) returns only from a state where the  *)
(* count is greater than zero, and that one step lowers the count by       *)
(* exactly one; in every reachable state the count of every semaphore      *)
(* object is non-negative and equals its initial count plus its completed  *)
(* releases minus its completed acquisitions.                              *)
C5_Counted ==
    \A o \in Objs :
        /\ count[o] >= 0
        /\ count[o] = acct.init[o] + acct.net[o]

C5_Step ==
    \A t \in Threads, o \in Objs :
        /\ pc[t] = "wait" /\ pc'[t] = "run"
        /\ Resolve(waitOn[t].h) = o
        /\ WaitReturns(t)
        => /\ count[o] > 0
             /\ count'[o] = count[o] - 1
             /\ \A q \in Objs \ {o} : count'[q] = count[q]

C5_AtomicAcquire == []C5_Counted /\ [][C5_Step]_vars

C5_Witness ==
    /\ ret.op = "acquire"
    /\ ret.kind = "Ok"
    /\ \E o \in Objs : acct.init[o] = 1 /\ acct.net[o] = -1 /\ count[o] = 0

(* C6 as stated: in every reachable state, whatever public operations ran  *)
(* (direct acquire, try_acquire and release included), the live guards of  *)
(* a Semaphore number at most its successful acquisitions minus the        *)
(* releases performed on it.                                               *)
C6_GuardsBacked ==
    \A h \in Handles :
        hnd[h].st = "open" => Cardinality(LiveGuards(h)) <= acct.hNet[h]

(* C6 amended: the bound holds for every Semaphore on which the successful *)
(* direct release calls do not outnumber the successful direct acquire and *)
(* try_acquire calls.                                                      *)
C6_GuardsBackedWhenPaired ==
    \A h \in Handles :
        hnd[h].st = "open" /\ acct.dNet[h] >= 0
          => Cardinality(LiveGuards(h)) <= acct.hNet[h]

C6_Witness ==
    \E h \in Handles :
        /\ hnd[h].st = "open"
        /\ LiveGuards(h) # {}
        /\ acct.dNet[h] = 0
        /\ acct.hNet[h] = 1
        /\ used.direct > 0

(* C7: two Semaphores obtained for one name while it is linked read the    *)
(* same count, that of the one object behind the name; an open of a name   *)
(* that is linked succeeds whatever k is, changes no count, and value()    *)
(* through the new Semaphore reads the object's count.                     *)
C7_Shared ==
    \A h1, h2 \in Handles :
        /\ h1 # h2
        /\ hnd[h1].st = "open" /\ hnd[h2].st = "open"
        /\ hnd[h1].obj = hnd[h2].obj
        => /\ Resolve(h1) = hnd[h1].obj
           /\ Resolve(h2) = hnd[h1].obj
           /\ ValueReads(h1) = ValueReads(h2)

C7_OpenJoins ==
    \A t \in Threads, name \in Names, k \in Capacities, o \in Objs :
        /\ t = Opener /\ ret'.op = "open" /\ ~HasNul(name) /\ ns[name] = o
        /\ Open(t, name, k)
        => /\ ret'.kind = "Ok"
             /\ count' = count
             /\ \E h \in Handles :
                    /\ ret'.h = h /\ hnd[h].st = "none"
                    /\ hnd'[h].obj = o
                    /\ ValueReads(h)' = {NormalizeValue(count[o])}

C7_SharedCount == [][C7_Shared' /\ C7_OpenJoins]_vars

(* C8: value() through the Semaphore that create(name, N), or an open that *)
(* newly creates the object, returned reads exactly N, and a step that     *)
(* performs no acquisition and no release on an object leaves what value() *)
(* reads through every open Semaphore of that object unchanged.            *)
C8_CreatedWithN ==
    \A t \in Threads, name \in Names, N \in Capacities :
        /\ t = Opener /\ ret'.op \in {"open", "create"}
        /\ ret'.kind = "Ok"
        /\ ns[StrOf(CStringNew(name).c)] = 0
        /\ Create(t, name, N) \/ Open(t, name, N)
        => \E h \in Handles : ret'.h = h /\ ValueReads(h)' = {N}

C8_KeepsN ==
    \A h \in Handles, o \in Objs :
        /\ hnd[h].st = "open" /\ hnd'[h].st = "open"
        /\ hnd[h].obj = o
        /\ acct'.net[o] = acct.net[o]
        /\ ret'.op \notin {"acquire", "try_acquire", "access", "try_access",
                           "release", "guard_drop"}
        => ValueReads(h)' = ValueReads(h)

C8_InitialValue == [][C8_CreatedWithN /\ C8_KeepsN]_vars

(* C9 as stated: create of a name that is linked returns the already-      *)
(* exists error and no Semaphore and changes neither a count nor the       *)
(* namespace; a create that succeeds found the name absent.                *)
C9_Fails(t, name, k, kinds) ==
    t = Opener /\ ret'.op = "create" /\ ~HasNul(name) /\ Create(t, name, k)
      => /\ ns[name] # 0 => /\ ret'.kind \in kinds
                            /\ ret'.h = 0
                            /\ UNCHANGED <<ns, count, map, hnd, grd>>
         /\ ret'.kind = "Ok" => ns[name] = 0 /\ ns'[name] # 0

C9_AlreadyExists ==
    [][\A t \in Threads, name \in Names, k \in Capacities :
          C9_Fails(t, name, k, {"AlreadyExists"})]_vars

(* C9 amended: create of a name that is linked always fails, returns no    *)
(* Semaphore and changes neither a count nor the namespace; the error is   *)
(* already-exists when the count the OS receives (k reduced to the width   *)
(* of unsigned int) is at most SEM_VALUE_MAX and invalid-input otherwise;  *)
(* a create that succeeds found the name absent.                           *)
C9_AlreadyExistsOrInvalid ==
    [][\A t \in Threads, name \in Names, k \in Capacities :
          C9_Fails(t, name, k,
                   IF k % UIntMod <= SemValueMax THEN {"AlreadyExists"}
                   ELSE {"InvalidInput"})]_vars

C9_Witness ==
    /\ ret.op = "create"
    /\ ret.kind = "AlreadyExists"
    /\ ret.h = 0
    /\ \E n \in OsNames : ns[n] # 0

(* C10: open and create of a name with an embedded NUL byte return         *)
(* InvalidInput for every initial count without calling the OS: the error  *)
(* carries no OS code, no Semaphore is returned, and namespace, counts,    *)
(* mappings and Semaphores are unchanged.                                  *)
C10_Step ==
    \A t \in Threads, name \in Names, k \in Capacities :
        /\ t = Opener /\ ret'.op \in {"open", "create"} /\ HasNul(name)
        /\ Open(t, name, k) \/ Create(t, name, k)
        => /\ ret'.kind = "InvalidInput"
             /\ ret'.errno = "none"
             /\ ret'.sys = 0
             /\ ret'.h = 0
             /\ UNCHANGED <<ns, count, map, hnd>>

C10_NulRejected == [][C10_Step]_vars

C10_Witness ==
    /\ ret.op \in {"open", "create"}
    /\ ret.kind = "InvalidInput"
    /\ ret.errno = "none"
    /\ ret.sys = 0

(* C11: a successful unlink removes the name and changes neither a         *)
(* Semaphore nor a mapping nor the count of a semaphore in use; an open or *)
(* create of a name that is absent yields an object no earlier Semaphore   *)
(* was opened on, and create of an absent name with a count within the     *)
(* limit succeeds; a Semaphore whose object has been unlinked keeps        *)
(* referring to that object over every step that does not close or drop    *)
(* that Semaphore itself.                                                  *)
C11_UnlinkStep ==
    \A h \in Handles :
        /\ ret'.op = "unlink" /\ ret'.h = h
        /\ ns[StrOf(hnd[h].name)] # 0
        /\ Unlink(h)
        => /\ ret'.kind = "Ok"
             /\ ns'[StrOf(hnd[h].name)] = 0
             /\ hnd' = hnd
             /\ map' = map
             /\ grd' = grd
             /\ \A h2 \in Handles :
                    hnd[h2].st = "open" /\ Resolve(h2) # 0
                      => count'[Resolve(h2)] = count[Resolve(h2)]

C11_FreshAfterUnlink ==
    \A t \in Threads, name \in Names, k \in Capacities :
        /\ ~HasNul(name) /\ ns[name] = 0
        /\ t = Opener /\ ret'.op \in {"open", "create"}
        /\ Open(t, name, k) \/ Create(t, name, k)
        => /\ (k <= SemValueMax => ret'.kind = "Ok")
           /\ ret'.kind = "Ok"
                => \E h \in Handles :
                      /\ ret'.h = h
                      /\ ns'[name] = hnd'[h].obj
                      /\ \A h2 \in Handles \ {h} :
                             hnd[h2].st = "open"
                               => /\ hnd[h2].obj # hnd'[h].obj
                                  /\ hnd'[h2] = hnd[h2]
           /\ \A o \in Objs : Live(o, ns, map) => count'[o] = count[o]

C11_StaysUsable ==
    \A h \in Handles :
        /\ hnd[h].st = "open" /\ hnd'[h].st = "open"
        /\ Resolve(h) = hnd[h].obj
        /\ \A n \in OsNames : ns[n] # hnd[h].obj
        => Resolve(h)' = hnd[h].obj

C11_UnlinkedHandlesLive ==
    [][C11_UnlinkStep /\ C11_FreshAfterUnlink /\ C11_StaysUsable]_vars

(* The unlink and open/create parts of C11 alone.                          *)
C11_UnlinkItself == [][C11_UnlinkStep /\ C11_FreshAfterUnlink]_vars

(* C12: create of a valid name that is not in use, with a count within the *)
(* limit, succeeds and yields the only reference to a new object linked    *)
(* under the name; unlink through that Semaphore then succeeds and removes *)
(* the name; close of it then returns Ok, after which the name is absent,  *)
(* the object is destroyed and no Semaphore or mapping refers to it.       *)
C12_OnlyRef(h) ==
    /\ hnd[h].st = "open"
    /\ Resolve(h) = hnd[h].obj
    /\ map[hnd[h].sem].ref = 1
    /\ \A h2 \in Handles \ {h} : hnd[h2].obj # hnd[h].obj

C12_Linked(h) == ns[StrOf(hnd[h].name)] = hnd[h].obj

C12_Step ==
    /\ \A t \in Threads, name \in Names, k \in Capacities :
         /\ t = Opener /\ ret'.op = "create"
         /\ ~HasNul(name) /\ ns[name] = 0 /\ k <= SemValueMax
         /\ Create(t, name, k)
         => /\ ret'.kind = "Ok"
            /\ \E h \in Handles :
                  ret'.h = h /\ StrOf(hnd'[h].name) = name
                    /\ C12_OnlyRef(h)' /\ C12_Linked(h)'
    /\ \A h \in Handles, o \in Objs :
         /\ ret'.op = "unlink" /\ ret'.h = h
         /\ hnd[h].obj = o /\ C12_OnlyRef(h) /\ C12_Linked(h)
         /\ Unlink(h)
         => /\ ret'.kind = "Ok"
            /\ ns'[StrOf(hnd[h].name)] = 0
            /\ \A n \in OsNames : ns'[n] # o
            /\ C12_OnlyRef(h)'
    /\ \A h \in Handles, o \in Objs :
         /\ ret'.op = "close" /\ ret'.h = h
         /\ hnd[h].obj = o /\ C12_OnlyRef(h)
         /\ \A n \in OsNames : ns[n] # o
         /\ Close(h)
         => /\ ret'.kind = "Ok"
            /\ hnd'[h].st = "closed"
            /\ \A n \in OsNames : ns'[n] # o
            /\ \A a \in Addrs : map'[a].obj # o
            /\ \A h2 \in Handles : hnd'[h2].st = "open" =>
                   hnd'[h2].obj # o /\ Resolve(h2)' # o
            /\ ~Live(o, ns', map')

C12_CreateUnlinkClose == [][C12_Step]_vars

C12_Witness ==
    /\ ret.op = "close"
    /\ ret.kind = "Ok"
    /\ used.objs = 1
    /\ used.handles = 1
    /\ \A n \in OsNames : ns[n] = 0
    /\ \A a \in Addrs : map[a] = Unmapped
    /\ \A h \in Handles : hnd[h].st # "open"

(* C13: value() through a Semaphore that refers to a semaphore returns Ok  *)
(* with max(0, v) for a value v that sem_getvalue can report: 0 for a      *)
(* negative v, v itself otherwise, never a negative number; the call       *)
(* changes nothing but its own result.                                     *)
C13_Step ==
    \A h \in Handles :
        ret'.op = "value" /\ ret'.h = h /\ Resolve(h) # 0 /\ Value(h)
          => /\ ret'.kind = "Ok"
             /\ ret'.val >= 0
             /\ \E v \in SemGetValue(Resolve(h)) :
                    ret'.val = IF v < 0 THEN 0 ELSE v
             /\ UNCHANGED <<ns, count, map, hnd, grd, pc, waitOn, crashed, acct>>

C13_ValueNormalized == [][C13_Step]_vars

C13_Witness ==
    /\ ret.op = "value"
    /\ ret.kind = "Ok"
    /\ ret.val = 0
    /\ hnd[ret.h].st = "open"
    /\ Resolve(ret.h) # 0
    /\ \E v \in SemGetValue(Resolve(ret.h)) : v < 0

(* C14: an access whose sem_wait is interrupted, and a try_access whose    *)
(* sem_trywait fails, return the OS error to the caller at once: the       *)
(* caller is running again (nothing is retried), no guard is built, so no  *)
(* release follows for the attempt, and no count changes.                  *)
C14_Step ==
    /\ \A t \in Threads :
         /\ pc[t] = "wait" /\ waitOn[t].op = "access"
         /\ ret'.op = "access"
         /\ WaitInterrupted(t)
         => /\ ret'.kind = "Interrupted"
            /\ ret'.errno = "EINTR"
            /\ pc'[t] = "run"
            /\ waitOn'[t] = NoWait
            /\ grd' = grd
            /\ count' = count
            /\ acct' = acct
    /\ \A h \in Handles :
         /\ ret'.op = "try_access"
         /\ TryAccess(h)
         /\ ret'.kind \notin {"Ok", "Fault"}
         => /\ ret'.kind = "WouldBlock"
            /\ pc' = pc
            /\ grd' = grd
            /\ count' = count
            /\ acct' = acct

C14_FailedAccessNoGuard == [][C14_Step]_vars

C14_Witness ==
    /\ ret.op = "access"
    /\ ret.kind = "Interrupted"
    /\ \A g \in Guards : grd[g].st = "none"
    /\ \A t \in Threads : pc[t] = "run"

(* C15: a release that succeeds raises the count of its semaphore by       *)
(* exactly one and returns nobody from sem_wait by itself; with count 0    *)
(* and two or more threads blocked in acquire/access, the release leaves   *)
(* count 1, any one blocked thread can then complete, and the completion   *)
(* of one takes the count back to 0 with every other blocked thread still  *)
(* blocked and unable to return.                                           *)
C15_CanProceed ==
    \A t \in Threads :
        /\ pc[t] = "wait" /\ ~crashed
        /\ Resolve(waitOn[t].h) # 0
        /\ count[Resolve(waitOn[t].h)] > 0
        => ENABLED WaitReturns(t)

C15_Step ==
    /\ \A h \in Handles, o \in Objs :
         /\ ret'.op = "release" /\ ret'.kind = "Ok"
         /\ Resolve(h) = o
         /\ Release(h)
         => /\ count'[o] = count[o] + 1
            /\ \A q \in Objs \ {o} : count'[q] = count[q]
            /\ pc' = pc /\ waitOn' = waitOn
    /\ \A t \in Threads, h \in Handles, o \in Objs :
         /\ pc[t] = "wait" /\ waitOn[t].h = h /\ Resolve(h) = o
         /\ count[o] = 1 /\ Waiters(o) >= 2
         /\ WaitReturns(t)
         => /\ ret'.kind = "Ok"
            /\ pc'[t] = "run"
            /\ count'[o] = 0
            /\ \A t2 \in Threads \ {t} :
                   pc[t2] = "wait" /\ Resolve(waitOn[t2].h) = o
                     => /\ pc'[t2] = "wait"
                        /\ waitOn'[t2] = waitOn[t2]
                        /\ ~SemWaitReady(o)'

C15_ReleaseWakesOne == []C15_CanProceed /\ [][C15_Step]_vars

C15_Witness ==
    /\ ret.op \in {"acquire", "access"}
    /\ ret.kind = "Ok"
    /\ \E o \in Objs :
          /\ Resolve(ret.h) = o
          /\ acct.init[o] = 0 /\ acct.net[o] = 0 /\ count[o] = 0
          /\ \E t \in Threads : pc[t] = "wait" /\ Resolve(waitOn[t].h) = o

(* A release through h would match no acquisition: every acquisition made  *)
(* through h and not yet released is held by a live guard.                 *)
C16_Unmatched(h) == acct.hNet[h] <= Cardinality(LiveGuards(h))

(* C16 as stated: a release without a matching acquisition (a guard may be *)
(* live) on a Semaphore that refers to a semaphore returns Ok, raises the  *)
(* count by one and crashes nothing.                                       *)
C16_UncheckedRelease ==
    [][\A h \in Handles, o \in Objs :
          /\ ret'.op = "release"
          /\ Resolve(h) = o /\ C16_Unmatched(h)
          /\ Release(h)
          => /\ ret'.kind = "Ok"
             /\ count'[o] = count[o] + 1
             /\ ~crashed']_vars

(* C16 amended: such a release returns Ok and raises the count by one      *)
(* while the count is below SEM_VALUE_MAX; at SEM_VALUE_MAX it returns the *)
(* OS overflow error and leaves the count unchanged; it never crashes.     *)
C16_UncheckedReleaseBelowMax ==
    [][\A h \in Handles, o \in Objs :
          /\ ret'.op = "release"
          /\ Resolve(h) = o /\ C16_Unmatched(h)
          /\ Release(h)
          => /\ ~crashed'
             /\ IF count[o] < SemValueMax
                THEN ret'.kind = "Ok" /\ count'[o] = count[o] + 1
                ELSE /\ ret'.kind = "Other" /\ ret'.errno = "EOVERFLOW"
                     /\ count' = count]_vars

C16_Witness ==
    /\ ret.op = "release"
    /\ ret.kind = "Ok"
    /\ LiveGuards(ret.h) # {}
    /\ Resolve(ret.h) # 0
    /\ count[Resolve(ret.h)] > acct.init[Resolve(ret.h)]

(* C17: open and create with an initial count above SEM_VALUE_MAX return   *)
(* an OS error and no Semaphore, and create no object: namespace, counts,  *)
(* mappings and Semaphores are unchanged.                                  *)
C17_AboveMaxFails ==
    [][\A t \in Threads, name \in Names, k \in Capacities :
          /\ k > SemValueMax /\ ~HasNul(name)
          /\ t = Opener /\ ret'.op \in {"open", "create"}
          /\ Open(t, name, k) \/ Create(t, name, k)
          => /\ ret'.kind # "Ok"
             /\ ret'.errno # "none"
             /\ ret'.h = 0
             /\ UNCHANGED <<ns, count, map, hnd>>]_vars

(* The guards live on Semaphores that were opened on object o.             *)
C18_Holders(o) ==
    {g \in Guards : grd[g].st = "live" /\ hnd[grd[g].sem].obj = o}

(* C18: while no direct acquire, try_acquire or release has been made and  *)
(* the process is running, every semaphore object has at most as many live *)
(* guards as its initial count, and its count plus its live guards equals  *)
(* its initial count.                                                      *)
C18_BoundedHolders ==
    used.direct = 0 /\ ~crashed =>
        \A o \in Objs :
            Live(o, ns, map) =>
                /\ Cardinality(C18_Holders(o)) <= acct.init[o]
                /\ count[o] + Cardinality(C18_Holders(o)) = acct.init[o]

(* C19 as stated: unlink through Semaphore h removes no namespace entry    *)
(* but that of the object h was opened on, and unlink of a name that is    *)
(* absent fails and changes nothing.                                       *)
C19_AbsentFails(h) ==
    ns[StrOf(hnd[h].name)] = 0
      => /\ ret'.kind = "NotFound"
         /\ UNCHANGED <<ns, count, map, hnd, grd>>

C19_UnlinksOwnObject ==
    [][\A h \in Handles :
          ret'.op = "unlink" /\ ret'.h = h /\ Unlink(h)
            => /\ \A n \in OsNames : ns'[n] # ns[n] => ns[n] = hnd[h].obj
               /\ C19_AbsentFails(h)]_vars

(* C19 amended: unlink through h removes the entry of h's stored name and  *)
(* no other, whichever object is linked under that name at the time: h's   *)
(* own object, or one created under the name after an earlier unlink; and  *)
(* unlink of a name that is absent fails and changes nothing.              *)
C19_UnlinksStoredName ==
    [][\A h \in Handles :
          ret'.op = "unlink" /\ ret'.h = h /\ Unlink(h)
            => /\ \A n \in OsNames : ns'[n] # ns[n] => n = StrOf(hnd[h].name)
               /\ ns[StrOf(hnd[h].name)] # 0
                    => /\ ret'.kind = "Ok"
                       /\ ns'[StrOf(hnd[h].name)] = 0
                       /\ ns[StrOf(hnd[h].name)] >= hnd[h].obj
               /\ C19_AbsentFails(h)]_vars

C19_Witness ==
    /\ ret.op = "unlink"
    /\ ret.kind = "NotFound"
    /\ hnd[ret.h].st = "open"
    /\ ns[StrOf(hnd[ret.h].name)] = 0
    /\ used.objs = 2

(* Thread t is inside the sem_wait of an access.                           *)
C20_Blocked(t) == pc[t] = "wait" /\ waitOn[t].op = "access"

C20_Waiting(t) ==
    /\ C20_Blocked(t)
    /\ Resolve(waitOn[t].h) # 0
    /\ count[Resolve(waitOn[t].h)] > 0

====
